---------------------------- MODULE Spec2Model ----------------------------
(***************************************************************************)
(* VolumeScaler: the per-node polling loop that grows a                    *)
(* PersistentVolumeClaim when the utilization of its mounted filesystem    *)
(* crosses a threshold.  src/ holds three versions of the program: main of *)
(* src/main.go:334-558 (client-go, the cooldown removed at line 502), main *)
(* of src/volumescaler.yaml:227-449 (the same calls, with a 6 hour         *)
(* cooldown) and main of src/main.go:73-261 (the policy and the patches    *)
(* through kubectl, with the cooldown).  An instance of the loop runs one  *)
(* of them; the line numbers in the comments are those of src/main.go      *)
(* 263-558 unless a comment says otherwise.                                *)
(*                                                                         *)
(* Strings are sequences of one-character strings.  A float64 holding a    *)
(* size in Gi is held as an integer number of 1/GiUnit Gi, which is exact  *)
(* for the sizes of this model (whole Mi, whole scale percentages).  The   *)
(* utilization is computed as the code computes it, in float64: with a     *)
(* 6400Mi claim and 3735552 used blocks it is 56.99999999999999 where the  *)
(* exact quotient is 57.                                                   *)
(*                                                                         *)
(* A step of the model is one blocking call of the loop (a request to the  *)
(* API server, os.Stat, df, time.Sleep) or one reading of the clock for    *)
(* the scaledAt stamp, together with the computation that follows it up to *)
(* the next one.  Spec is the loop of one node and the clock (SpecSmall    *)
(* the same with a claim below 1Gi); SpecCluster                           *)
(* is the DaemonSet, a loop on each of two nodes whose steps interleave    *)
(* within one hour of the clock; FairNode and FairFull are one node under  *)
(* the assumption that its loop keeps running, FairFull with the main that *)
(* has no cooldown; SpecAdapters applies convertToGi to inputs drawn from  *)
(* bounded sets.                                                           *)
(***************************************************************************)
EXTENDS Integers, Sequences, FiniteSets, TLC

VARIABLES pvcSize,   \* spec.resources.requests.storage of the PVC, in Mi
          scalers,   \* the VolumeScaler objects of the namespace, in list order
          now,       \* wall clock, in hours
          instances, \* per node: where its copy of the loop stands
          calc       \* a pure function of the program, its input and its result

vars == <<pvcSize, scalers, now, instances, calc>>

----------------------------------------------------------------------------
(* Bounds of the model *)

\* the clock stops after MaxTicks ticks
MaxTicks == 2

\* hours that pass in one tick of the clock
TickHours == 3

\* df "Used" values the probe may report, in BlockStep blocks
UsedSteps == {0, 4, 14, 15, 26}

\* requested storage of the PVC when the program starts, in Mi
InitSizes == {1024, 1280, 5 * 1024, 7 * 1024, 9 * 1024, 12 * 1024}

\* the policies a behaviour may start with (CRD patterns ^[0-9]+%$, ^[0-9]+Gi$)
Thresholds == {<<"7", "0", "%">>}

Scales == {<<"0", "%">>, <<"1", "0", "%">>, <<"3", "0", "%">>}

MaxSizes == {<<"1", "0", "G", "i">>}

----------------------------------------------------------------------------
(* Fixed-point representation of float64 sizes *)

\* one Gi, in the integer unit that represents a float64 number of Gi
GiUnit == 1024 * 100

\* df reports 1K blocks; the probe inputs are multiples of BlockStep blocks
BlockStep == 256 * 1024

----------------------------------------------------------------------------
(* Characters and numerals *)

Digits == <<"0", "1", "2", "3", "4", "5", "6", "7", "8", "9">>

DigitValues ==
    [r \in {"0", "1", "2", "3", "4", "5", "6", "7", "8", "9"} |->
        CHOOSE d \in 0..9 : Digits[d + 1] = r]

\* r >= '0' && r <= '9'
IsDigit(r) == r \in DOMAIN DigitValues

DigitVal(r) == DigitValues[r]

RECURSIVE DigitsToNat(_)
DigitsToNat(s) ==
    IF s = <<>> THEN 0
    ELSE 10 * DigitsToNat(SubSeq(s, 1, Len(s) - 1)) + DigitVal(s[Len(s)])

RECURSIVE NatToDigits(_)
NatToDigits(n) ==
    IF n < 10 THEN <<Digits[n + 1]>>
    ELSE Append(NatToDigits(n \div 10), Digits[(n % 10) + 1])

\* strings.TrimSuffix(s, "%")
TrimSuffix(s) ==
    IF Len(s) >= 1 /\ s[Len(s)] = "%" THEN SubSeq(s, 1, Len(s) - 1) ELSE s

\* strconv.Atoi / strconv.ParseFloat on the strings of this model, which hold
\* no sign, point or exponent: a non-empty string of digits parses, any other
\* string is an error.
ParseNumber(s) ==
    IF s # <<>> /\ \A i \in 1..Len(s) : IsDigit(s[i])
    THEN [err |-> FALSE, val |-> DigitsToNat(s)]
    ELSE [err |-> TRUE, val |-> 0]

----------------------------------------------------------------------------
(* convertToGi *)

\* index of the first rune that is not a digit, 0 when there is none
FirstNonDigit(sizeStr) ==
    IF \E i \in 1..Len(sizeStr) : ~IsDigit(sizeStr[i])
    THEN CHOOSE i \in 1..Len(sizeStr) :
            /\ ~IsDigit(sizeStr[i])
            /\ \A j \in 1..(i - 1) : IsDigit(sizeStr[j])
    ELSE 0

\* mutant of convertToGi: a number of Mi is divided as an integer, so a size
\* below 1Gi converts to 0
convertToGiWholeGi(sizeStr) ==
    LET i == FirstNonDigit(sizeStr)
        splitNumber == IF i = 0 THEN <<>> ELSE SubSeq(sizeStr, 1, i - 1)
        splitUnit == IF i = 0 THEN <<>> ELSE SubSeq(sizeStr, i, Len(sizeStr))
        allDigits == splitNumber = <<>> /\ splitUnit = <<>>
        numberStr == IF allDigits THEN sizeStr ELSE splitNumber
        unitStr == IF allDigits THEN <<"G", "i">> ELSE splitUnit
        number == ParseNumber(numberStr)
    IN  IF number.err THEN [err |-> TRUE, val |-> 0]
        ELSE IF unitStr = <<"G", "i">> THEN [err |-> FALSE, val |-> number.val * GiUnit]
        ELSE IF unitStr = <<"M", "i">> THEN [err |-> FALSE, val |-> (number.val \div 1024) * GiUnit]
        ELSE IF unitStr = <<"T", "i">> THEN [err |-> FALSE, val |-> number.val * GiUnit * 1024]
        ELSE [err |-> FALSE, val |-> number.val * GiUnit]

convertToGi(sizeStr) ==
    LET i == FirstNonDigit(sizeStr)
        splitNumber == IF i = 0 THEN <<>> ELSE SubSeq(sizeStr, 1, i - 1)
        splitUnit == IF i = 0 THEN <<>> ELSE SubSeq(sizeStr, i, Len(sizeStr))
        allDigits == splitNumber = <<>> /\ splitUnit = <<>>
        numberStr == IF allDigits THEN sizeStr ELSE splitNumber
        unitStr == IF allDigits THEN <<"G", "i">> ELSE splitUnit
        number == ParseNumber(numberStr)
    IN  IF number.err THEN [err |-> TRUE, val |-> 0]
        ELSE IF unitStr = <<"G", "i">> THEN [err |-> FALSE, val |-> number.val * GiUnit]
        ELSE IF unitStr = <<"M", "i">> THEN [err |-> FALSE, val |-> (number.val * GiUnit) \div 1024]
        ELSE IF unitStr = <<"T", "i">> THEN [err |-> FALSE, val |-> number.val * GiUnit * 1024]
        ELSE [err |-> FALSE, val |-> number.val * GiUnit]

----------------------------------------------------------------------------
(* The Kubernetes objects the loop reads and writes *)

\* name of the one PersistentVolumeClaim mounted by a pod of this node
PvcName == "data"

\* resource.Quantity.String() of a storage request held in Mi: the largest
\* binary suffix that leaves a whole number
QuantityString(mi) ==
    IF mi % (1024 * 1024) = 0 /\ mi > 0
    THEN NatToDigits(mi \div (1024 * 1024)) \o <<"T", "i">>
    ELSE IF mi % 1024 = 0 /\ mi > 0 THEN NatToDigits(mi \div 1024) \o <<"G", "i">>
    ELSE IF mi > 0 THEN NatToDigits(mi) \o <<"M", "i">>
    ELSE <<"0">>

\* the storage request, in Mi, that the API server stores for the "<n>Gi" of
\* the size patch
PatchedStorage(newSizeStr) ==
    DigitsToNat(SubSeq(newSizeStr, 1, Len(newSizeStr) - 2)) * 1024

\* time.Now().UTC().Format(time.RFC3339); "" is the empty sequence
FormatTime(t) == <<t>>

\* time.Parse(time.RFC3339, s)
ParseTime(s) == s[1]

EmptyStatus == [ScaledAt |-> <<>>, ReachedMaxSize |-> FALSE]

\* mutant of MergePatch: the patch replaces the whole status
MergePatchReplacing(status, patch) ==
    [f \in DOMAIN status |-> IF f \in DOMAIN patch THEN patch[f] ELSE EmptyStatus[f]]

\* a JSON merge patch of the status subresource: only the fields the patch
\* names are written
MergePatch(status, patch) ==
    [f \in DOMAIN status |-> IF f \in DOMAIN patch THEN patch[f] ELSE status[f]]

----------------------------------------------------------------------------
(* float64 arithmetic of the utilization: a quotient of two whole numbers   *)
(* rounded to 53 significant bits, a product rounded again, and int() of    *)
(* the result.  A mantissa is a number in limbs of 15 bits, lowest first.   *)

LimbBase == 32 * 1024

\* x * k + c, for small k and c
BigMulAdd[x \in Seq(Nat), k \in Nat, c \in Nat] ==
    IF x = <<>> THEN (IF c = 0 THEN <<>> ELSE <<c>>)
    ELSE LET v == Head(x) * k + c
         IN  <<v % LimbBase>> \o BigMulAdd[Tail(x), k, v \div LimbBase]

\* x shifted right by one bit
BigHalf(x) ==
    [i \in 1..Len(x) |->
        x[i] \div 2 + (IF i < Len(x) THEN (x[i + 1] % 2) * (LimbBase \div 2) ELSE 0)]

BigOdd(x) == x # <<>> /\ x[1] % 2 = 1

BitLen[n \in Nat] == IF n = 0 THEN 0 ELSE 1 + BitLen[n \div 2]

BigBitLen[x \in Seq(Nat)] ==
    IF x = <<>> THEN 0
    ELSE IF x[Len(x)] = 0 THEN BigBitLen[SubSeq(x, 1, Len(x) - 1)]
    ELSE 15 * (Len(x) - 1) + BitLen[x[Len(x)]]

BigToNat[x \in Seq(Nat)] == IF x = <<>> THEN 0 ELSE Head(x) + LimbBase * BigToNat[Tail(x)]

\* x shifted right by s bits
BigShiftRight[x \in Seq(Nat), s \in Nat] ==
    IF s = 0 \/ x = <<>> THEN x
    ELSE IF s >= 15 THEN BigShiftRight[Tail(x), s - 15]
    ELSE BigShiftRight[BigHalf(x), s - 1]

\* a and b brought to b <= a < 2b by doubling one of them; e counts the
\* doublings: the quotient of the inputs is (a / b) * 2^e
Scale[a \in Nat, b \in Nat, e \in Int] ==
    IF a < b THEN Scale[2 * a, b, e - 1]
    ELSE IF a >= 2 * b THEN Scale[a, 2 * b, e + 1]
    ELSE [a |-> a, b |-> b, e |-> e]

\* n further bits of the quotient by long division: m the bits so far, r the
\* remainder
DivSteps[m \in Seq(Nat), r \in Nat, b \in Nat, n \in Nat] ==
    IF n = 0 THEN [m |-> m, r |-> r]
    ELSE LET bit == IF 2 * r >= b THEN 1 ELSE 0
         IN  DivSteps[BigMulAdd[m, 2, bit], 2 * r - bit * b, b, n - 1]

\* x shifted right by s bits, with the last bit shifted out (guard) and
\* whether any bit before it was set (sticky)
ShiftSticky[x \in Seq(Nat), s \in Nat, guard \in BOOLEAN, sticky \in BOOLEAN] ==
    IF s = 0 \/ x = <<>> THEN [q |-> x, guard |-> guard, sticky |-> sticky]
    ELSE ShiftSticky[BigHalf(x), s - 1, BigOdd(x), sticky \/ guard]

\* m * 2^e rounded to 53 significant bits, a tie going to the even mantissa
RoundTo53[m \in Seq(Nat), e \in Int] ==
    IF BigBitLen[m] <= 53 THEN [m |-> m, e |-> e]
    ELSE LET s == BigBitLen[m] - 53
             sh == ShiftSticky[m, s, FALSE, FALSE]
         IN  [m |-> IF sh.guard /\ (sh.sticky \/ BigOdd(sh.q))
                    THEN BigMulAdd[sh.q, 1, 1] ELSE sh.q,
              e |-> e + s]

\* the float64 nearest to a / b, for a > 0 and b > 0: the value is m * 2^e
FloatQuotient[a \in Nat, b \in Nat] ==
    LET sc == Scale[a, b, 0]
        d == DivSteps[<<1>>, sc.a - sc.b, sc.b, 52]
        up == 2 * d.r > sc.b \/ (2 * d.r = sc.b /\ BigOdd(d.m))
    IN  [m |-> IF up THEN BigMulAdd[d.m, 1, 1] ELSE d.m, e |-> sc.e - 52]

\* a float64 above 0: the value is m * 2^e, m of at most 53 bits
Float == [m : Seq(Nat), e : Int]

\* the float64 nearest to f * k
FloatTimes[f \in Float, k \in Nat] == RoundTo53[BigMulAdd[f.m, k, 0], f.e]

\* int(f) for a float64 f >= 0 below 2^31, where f.e < 0
FloatToInt[f \in Float] == BigToNat[BigShiftRight[f.m, -f.e]]

----------------------------------------------------------------------------
(* The decisions of one reconciliation pass *)

\* mutant of AtOrBeyondMax: a size equal to maxSize is not yet "at max"
AtOrBeyondMaxStrict(currentPVCSize, maxSizeGi) == currentPVCSize > maxSizeGi

\* currentPVCSize >= maxSizeGi
AtOrBeyondMax(currentPVCSize, maxSizeGi) == currentPVCSize >= maxSizeGi

\* usedGi := usedBlocks / (1024 * 1024); int((usedGi / currentPVCSize) * 100),
\* for currentPVCSize # 0.  usedGi is exact (a division by a power of two),
\* so the quotient is that of usedBlocks * GiUnit by currentPVCSize * 2^20,
\* taken here with both divided by 4096.
IntUtilization(usedBlocks, currentPVCSize) ==
    IF usedBlocks = 0 THEN 0
    ELSE FloatToInt[FloatTimes[FloatQuotient[usedBlocks * (GiUnit \div 4096),
                                             currentPVCSize * 256],
                               100]]

\* int(utilization) >= threshold
MeetsThreshold(utilization, threshold) == utilization >= threshold

\* newSize := currentPVCSize + currentPVCSize * (scaleVal / 100.0)
GrownSize(currentPVCSize, scaleVal) ==
    currentPVCSize + (currentPVCSize * scaleVal) \div 100

\* mutant of ClampToMax: the clamp is lost
ClampToMaxMissing(newSize, maxSizeGi) == newSize

\* if newSize > maxSizeGi { newSize = maxSizeGi }
ClampToMax(newSize, maxSizeGi) == IF newSize > maxSizeGi THEN maxSizeGi ELSE newSize

\* mutant of RoundHalfEven: an exact half goes up
RoundHalfUp(n, d) == (2 * n + d) \div (2 * d)

\* the integer nearest to n / d, an exact half going to the even neighbour
RoundHalfEven(n, d) ==
    LET q == n \div d
        r == n % d
    IN  IF 2 * r < d THEN q
        ELSE IF 2 * r > d THEN q + 1
        ELSE IF q % 2 = 0 THEN q ELSE q + 1

\* fmt.Sprintf("%.0fGi", newSize)
FormatGi(newSize) == NatToDigits(RoundHalfEven(newSize, GiUnit)) \o <<"G", "i">>

\* mutant of NearMax: the flag is due after every increase
NearMaxAlways(maxSizeGi, newSize, reachedMaxSize) == ~reachedMaxSize

\* mutant of NearMax: the flag is due within 2 Gi of maxSize
NearMaxWide(maxSizeGi, newSize, reachedMaxSize) ==
    maxSizeGi - newSize <= 2 * GiUnit /\ ~reachedMaxSize

\* difference := maxSizeGi - newSize; difference <= 1 && !ReachedMaxSize
NearMax(maxSizeGi, newSize, reachedMaxSize) ==
    maxSizeGi - newSize <= GiUnit /\ ~reachedMaxSize

\* index of the first VolumeScaler of the list whose spec.pvcName is pvcName,
\* 0 when there is none
FindScaler(list, pvcName) ==
    IF \E i \in 1..Len(list) : list[i].Spec.PVCName = pvcName
    THEN CHOOSE i \in 1..Len(list) :
            /\ list[i].Spec.PVCName = pvcName
            /\ \A j \in 1..(i - 1) : list[j].Spec.PVCName # pvcName
    ELSE 0

----------------------------------------------------------------------------
(* The API calls a pass issues *)

PvcPatch(newSizeStr, ok) ==
    [kind |-> "pvc", size |-> newSizeStr, patch |-> <<>>, ok |-> ok]

\* mutant of ScaledAtPatch: the patch carries the whole status
ScaledAtPatchWholeStatus(currentTime, ok) ==
    [kind |-> "scaledAt", size |-> <<>>,
     patch |-> <<[ScaledAt |-> currentTime, ReachedMaxSize |-> FALSE]>>, ok |-> ok]

ScaledAtPatch(currentTime, ok) ==
    [kind |-> "scaledAt", size |-> <<>>,
     patch |-> <<[ScaledAt |-> currentTime]>>, ok |-> ok]

ReachedMaxSizePatch(ok) ==
    [kind |-> "reachedMaxSize", size |-> <<>>,
     patch |-> <<[ReachedMaxSize |-> TRUE]>>, ok |-> ok]

----------------------------------------------------------------------------
(* The versions of the program.  src/ holds three: each is a main that     *)
(* runs the same loop over the pod volumes of its node.                    *)

\* main of src/main.go:334-558: client-go calls, no cooldown
ClientGo == "main.go:334"

\* main of src/volumescaler.yaml:227-449: the same calls, and the cooldown
\* test between the threshold test and the new size
ClientGoCooldown == "volumescaler.yaml:227"

\* main of src/main.go:73-261: the claim through client-go, the policy and
\* the patches through kubectl, and the cooldown test
Kubectl == "main.go:73"

Mains == {ClientGo, ClientGoCooldown, Kubectl}

\* the mains that test the cooldown
HasCooldown(main) == main \in {ClientGoCooldown, Kubectl}

\* the cooldown interval, 6 * time.Hour, in hours
Cooldown == 6

\* the cooldown test at clock value t: status.scaledAt is set and t is before
\* the end of the interval that began then (the strings the program stores
\* parse)
RecentlyScaled(lastScaledTime, t) ==
    /\ lastScaledTime # <<>>
    /\ t < ParseTime(lastScaledTime) + Cooldown

\* the objects named name: what "kubectl get volumescaler name -o json" finds
NamedScalers(list, name) == SelectSeq(list, LAMBDA vs : vs.Name = name)

----------------------------------------------------------------------------
(* The control flow of the loop body between its blocking calls.  A value  *)
(* of Steps names the call the pass makes next; any other value is the     *)
(* path on which the pass ends.                                            *)

\* the steps of a pass: PVC Get (386), VolumeScaler List (400) or kubectl get
\* (125), status Patch of the max-size branch (457), os.Stat (469), df (474),
\* PVC Patch (521), time.Now of the stamp (528), scaledAt Patch (532),
\* reachedMaxSize Patch (542)
Steps ==
    {"pvcGet", "vsList", "vsGet", "maxPatch", "stat", "df", "pvcPatch", "timeNow",
     "scaledAt", "reachedPatch"}

\* mutant of MaxSizeBranch: the flag is patched whether or not it is set
MaxSizeBranchAlways(status) == "maxPatch"

\* the max-size branch: mark reachedMaxSize if not already done, then continue
MaxSizeBranch(status) == IF ~status.ReachedMaxSize THEN "maxPatch" ELSE "atMax"

\* what follows the PVC Get: the conversion of the size, then the fetch of
\* the policy
AfterGet(main, currentPVCSizeRaw) ==
    IF convertToGi(currentPVCSizeRaw).err THEN "pvcSizeError"
    ELSE IF main = Kubectl THEN "vsGet"
    ELSE "vsList"

\* what follows once the policy of the claim is at hand: the parsing of its
\* fields and the max-size test
AfterMatch(currentPVCSize, scaler) ==
    LET threshold == ParseNumber(TrimSuffix(scaler.Spec.Threshold))
        scaleVal == ParseNumber(TrimSuffix(scaler.Spec.Scale))
        maxSizeGi == convertToGi(scaler.Spec.MaxSize)
    IN  IF threshold.err THEN "invalidThreshold"
        ELSE IF scaleVal.err THEN "invalidScale"
        ELSE IF maxSizeGi.err THEN "invalidMaxSize"
        ELSE IF AtOrBeyondMax(currentPVCSize, maxSizeGi.val)
        THEN MaxSizeBranch(scaler.Status)
        ELSE "stat"

\* what follows the VolumeScaler List: the search for the policy whose
\* spec.pvcName is the claim, then AfterMatch
AfterList(pvcName, currentPVCSize, list) ==
    LET idx == FindScaler(list, pvcName)
    IN  IF Len(list) = 0 THEN "noScalers"
        ELSE IF idx = 0 THEN "noScaler"
        ELSE AfterMatch(currentPVCSize, list[idx])

\* what follows "kubectl get volumescaler pvcName" that returned found: an
\* error or no output ends the pass, else AfterMatch of the object
AfterKubectlGet(currentPVCSize, ok, found) ==
    IF ~ok \/ Len(found) = 0 THEN "noScaler"
    ELSE AfterMatch(currentPVCSize, found[1])

\* mutant of ScaleBranch: reachedMaxSize is patched a second time
ScaleBranchMarkingTwice(pc, ok, near, calls) ==
    IF pc = "df" THEN "pvcPatch"
    ELSE IF pc = "pvcPatch" THEN (IF ok THEN "timeNow" ELSE "scaleFailed")
    ELSE IF pc = "timeNow" THEN "scaledAt"
    ELSE IF pc = "scaledAt" THEN (IF near THEN "reachedPatch" ELSE "scaled")
    ELSE IF Len(calls) < 4 THEN "reachedPatch" ELSE "scaled"

\* mutant of ScaleBranch: a failed size-increase request does not end the
\* pass, the status patches follow it
ScaleBranchNoContinue(pc, ok, near, calls) ==
    IF pc = "df" THEN "pvcPatch"
    ELSE IF pc = "pvcPatch" THEN "timeNow"
    ELSE IF pc = "timeNow" THEN "scaledAt"
    ELSE IF pc = "scaledAt" THEN (IF near THEN "reachedPatch" ELSE "scaled")
    ELSE "scaled"

\* mutant of ScaleBranch: scaledAt is patched before the size-increase
\* request is issued
ScaleBranchStampFirst(pc, ok, near, calls) ==
    IF pc = "df" THEN "timeNow"
    ELSE IF pc = "timeNow" THEN "scaledAt"
    ELSE IF pc = "scaledAt" THEN "pvcPatch"
    ELSE IF pc = "pvcPatch"
    THEN (IF ~ok THEN "scaleFailed" ELSE IF near THEN "reachedPatch" ELSE "scaled")
    ELSE "scaled"

\* the branch taken when utilization meets the threshold and the new size
\* differs from the current one: what follows the step at pc (the df that led
\* here, a patch, or the reading of the clock), given whether the call
\* succeeded, whether the proximity check asks for the flag, and the calls
\* issued so far
ScaleBranch(pc, ok, near, calls) ==
    IF pc = "df" THEN "pvcPatch"
    ELSE IF pc = "pvcPatch" THEN (IF ok THEN "timeNow" ELSE "scaleFailed")
    ELSE IF pc = "timeNow" THEN "scaledAt"
    ELSE IF pc = "scaledAt" THEN (IF near THEN "reachedPatch" ELSE "scaled")
    ELSE "scaled"

\* newSize, after the clamp
NewSize(currentPVCSize, scaleVal, maxSizeGi) ==
    ClampToMax(GrownSize(currentPVCSize, scaleVal), maxSizeGi)

\* what follows a df that reported usedBlocks, in a pass of main that read
\* status.scaledAt = lastScaledTime, the clock showing t: the threshold test,
\* the cooldown test of the mains that have it, the new size and the no-op
\* test
AfterDf(main, usedBlocks, currentPVCSize, threshold, scaleVal, maxSizeGi, lastScaledTime, t) ==
    IF MeetsThreshold(IntUtilization(usedBlocks, currentPVCSize), threshold)
    THEN IF HasCooldown(main) /\ RecentlyScaled(lastScaledTime, t)
         THEN "recentlyScaled"
         ELSE IF NewSize(currentPVCSize, scaleVal, maxSizeGi) = currentPVCSize
         THEN "noPatchNeeded"
         ELSE ScaleBranch("df", TRUE, FALSE, <<>>)
    ELSE "belowThreshold"

----------------------------------------------------------------------------
(* What the API server does with the calls *)

\* the status patch of the object named scalerName
PatchStatus(list, scalerName, patch) ==
    [i \in 1..Len(list) |->
        IF list[i].Name = scalerName
        THEN [list[i] EXCEPT !.Status = MergePatch(@, patch)]
        ELSE list[i]]

\* the VolumeScaler objects after a status patch of main.  The client-go
\* mains patch the "status" subresource.  The kubectl main patches the object
\* itself ("kubectl patch volumescaler"): the CRD enables the status
\* subresource (src/volumescaler.yaml:75-76), so the API server leaves the
\* status of the object as it is and the call succeeds all the same
AfterStatusPatch(main, list, scalerName, patch, ok) ==
    IF ok /\ main # Kubectl THEN PatchStatus(list, scalerName, patch) ELSE list

\* the API server refuses a storage request below the one it holds
Admitted(mi, newSizeStr) == PatchedStorage(newSizeStr) >= mi

----------------------------------------------------------------------------
(* Inputs of a pass *)

\* utilization percentages at which df is also made to report exactly that
\* share of the claim, where it is a whole number of blocks
ExactPercents == {57}

\* the "Used" column df may report for a claim of mi Mi: the filesystem holds
\* no more than the storage the claim requests
DfReports(mi) ==
    {k * BlockStep : k \in {j \in UsedSteps : j * BlockStep <= mi * 1024}}
    \cup {(t * (mi * 256)) \div 25 : t \in {u \in ExactPercents : (u * (mi * 256)) % 25 = 0}}

----------------------------------------------------------------------------
(* The state of one copy of the loop *)

NoProbe == [mount |-> FALSE, df |-> FALSE, used |-> 0]

\* what a pass read and did: the size and the list it got, the place of the
\* policy in that list (0: none) and its status, the time of its latest step,
\* what the probe reported, currentTime of the stamp once the clock is read,
\* the path on which it ended ("running" until then) and the patches it
\* issued, in the order it issued them
NoPass ==
    [ran |-> FALSE, size |-> 0, list |-> <<>>, match |-> 0, status |-> EmptyStatus,
     at |-> 0, probe |-> NoProbe, currentTime |-> <<>>, path |-> "none",
     calls |-> <<>>]

\* a pass that has just begun at time t
NewPass(t) == [NoPass EXCEPT !.ran = TRUE, !.at = t, !.path = "running"]

\* no pure function is being applied
NoCalc == [op |-> "none"]

\* main: the version that runs; pc: the call the loop makes next ("podList":
\* the pod List at the top of the loop; "sleep": it is in time.Sleep; else a
\* value of Steps, in the pass for pod volume ref); passes: the passes of the current cycle that got the
\* claim and the policies; wrote: the instance has issued a size-increase
\* request or a status patch; failed: the latest pass of the instance ended
\* on a failure; pass: the pass in progress, or the latest one; prev: the
\* pass before it
Starting(main) ==
    [main |-> main, pc |-> "podList", ref |-> 0, passes |-> 0, wrote |-> FALSE,
     failed |-> FALSE, pass |-> NoPass, prev |-> NoPass]

\* the local variables of the loop body, from what the pass read
ScalerOf(p) == p.list[p.match]

CurrentPVCSizeOf(p) == convertToGi(QuantityString(p.size)).val

ThresholdOf(p) == ParseNumber(TrimSuffix(ScalerOf(p).Spec.Threshold)).val

ScaleValOf(p) == ParseNumber(TrimSuffix(ScalerOf(p).Spec.Scale)).val

MaxSizeGiOf(p) == convertToGi(ScalerOf(p).Spec.MaxSize).val

NewSizeOf(p) == NewSize(CurrentPVCSizeOf(p), ScaleValOf(p), MaxSizeGiOf(p))

NearMaxOf(p) == NearMax(MaxSizeGiOf(p), NewSizeOf(p), ScalerOf(p).Status.ReachedMaxSize)

\* pod volumes of the node that name the claim PvcName
PodVolumes == 2

\* the paths on which a pass ends because something failed or did not parse,
\* and the passes one of whose patches failed
FailedPass(p) ==
    \/ p.path \in {"pvcGetError", "pvcSizeError", "listError", "invalidThreshold",
                    "invalidScale", "invalidMaxSize", "dfError", "scaleFailed"}
    \/ \E i \in 1..Len(p.calls) : ~p.calls[i].ok

\* mutant of NextVolume: a pass that ended on a failure ends the process
NextVolumeExitingOnFailure(inst) ==
    IF inst.failed THEN [inst EXCEPT !.pc = "exit"]
    ELSE IF inst.ref < PodVolumes
    THEN [inst EXCEPT !.pc = "pvcGet", !.ref = @ + 1]
    ELSE [inst EXCEPT !.pc = "sleep", !.ref = 0]

\* "continue", or the end of the loop body: the loop moves on to the next pod
\* volume, or sleeps after the last one
NextVolume(inst) ==
    IF inst.ref < PodVolumes
    THEN [inst EXCEPT !.pc = "pvcGet", !.ref = @ + 1]
    ELSE [inst EXCEPT !.pc = "sleep", !.ref = 0]

\* the pass ends on a path
Finish(inst, path) ==
    NextVolume([inst EXCEPT !.pass.path = path,
                            !.failed = FailedPass([inst.pass EXCEPT !.path = path])])

\* the pass goes on to its next call, or ends
Goto(inst, to) == IF to \in Steps THEN [inst EXCEPT !.pc = to] ELSE Finish(inst, to)

----------------------------------------------------------------------------
(* The steps of the loop on node n: one action for each blocking call, with *)
(* the computation that follows it up to the next call                      *)

\* clientset.CoreV1().Pods("").List; on an error the loop sleeps and
\* evaluates no volume in this cycle
ListPods(n, ok) ==
    LET inst == instances[n]
    IN  /\ inst.pc = "podList"
        /\ instances' =
              [instances EXCEPT ![n] =
                  IF ok
                  THEN [inst EXCEPT !.pc = "pvcGet", !.ref = 1, !.passes = 0,
                                    !.failed = FALSE]
                  ELSE [inst EXCEPT !.pc = "sleep", !.prev = inst.pass,
                                    !.pass = [NewPass(now) EXCEPT !.path = "podListError"]]]
        /\ UNCHANGED <<pvcSize, scalers, now, calc>>

\* time.Sleep returns and the loop starts over
Wake(n) ==
    /\ instances[n].pc = "sleep"
    /\ instances' = [instances EXCEPT ![n].pc = "podList"]
    /\ UNCHANGED <<pvcSize, scalers, now, calc>>

\* PersistentVolumeClaims(namespace).Get for the next pod volume: a pass begins
GetClaim(n, ok) ==
    LET inst == instances[n]
        begun == [inst EXCEPT !.prev = inst.pass, !.pass = NewPass(now)]
    IN  /\ inst.pc = "pvcGet"
        /\ instances' =
              [instances EXCEPT ![n] =
                  IF ok
                  THEN Goto([begun EXCEPT !.pass.size = pvcSize],
                            AfterGet(inst.main, QuantityString(pvcSize)))
                  ELSE Finish(begun, "pvcGetError")]
        /\ UNCHANGED <<pvcSize, scalers, now, calc>>

\* the status the pass read: that of the matching VolumeScaler, if any
StatusRead(list, pvcName) ==
    IF FindScaler(list, pvcName) = 0 THEN EmptyStatus
    ELSE list[FindScaler(list, pvcName)].Status

\* dynClient.Resource(gvr).Namespace(namespace).List
ListScalers(n, ok) ==
    LET inst == instances[n]
        read == [inst.pass EXCEPT !.list = scalers,
                                  !.match = FindScaler(scalers, PvcName),
                                  !.status = StatusRead(scalers, PvcName),
                                  !.at = now]
    IN  /\ inst.pc = "vsList"
        /\ instances' =
              [instances EXCEPT ![n] =
                  IF ok
                  THEN Goto([inst EXCEPT !.pass = read, !.passes = @ + 1],
                            AfterList(PvcName, CurrentPVCSizeOf(read), scalers))
                  ELSE Finish([inst EXCEPT !.pass.at = now], "listError")]
        /\ UNCHANGED <<pvcSize, scalers, now, calc>>

\* runKubectl("get", "volumescaler", pvcName, ...) of the kubectl main: the
\* object of that name, whatever its spec.pvcName; an error of the command is
\* taken for "No VolumeScaler found"
GetScaler(n, ok) ==
    LET inst == instances[n]
        found == NamedScalers(scalers, PvcName)
        read == [inst.pass EXCEPT !.list = found,
                                  !.match = IF Len(found) = 0 THEN 0 ELSE 1,
                                  !.status = IF Len(found) = 0 THEN EmptyStatus
                                             ELSE found[1].Status,
                                  !.at = now]
    IN  /\ inst.pc = "vsGet"
        /\ instances' =
              [instances EXCEPT ![n] =
                  IF ok
                  THEN Goto([inst EXCEPT !.pass = read, !.passes = @ + 1],
                            AfterKubectlGet(CurrentPVCSizeOf(read), ok, found))
                  ELSE Finish([inst EXCEPT !.pass.at = now],
                              AfterKubectlGet(CurrentPVCSizeOf(inst.pass), ok, <<>>))]
        /\ UNCHANGED <<pvcSize, scalers, now, calc>>

\* the instance after it issued a patch
Issued(inst, call, t) ==
    [inst EXCEPT !.pass.calls = Append(@, call), !.pass.at = t, !.wrote = TRUE]

\* the status patch of the max-size branch; its error is printed
PatchMax(n, ok) ==
    LET inst == instances[n]
        call == ReachedMaxSizePatch(ok)
    IN  /\ inst.pc = "maxPatch"
        /\ scalers' = AfterStatusPatch(inst.main, scalers, ScalerOf(inst.pass).Name,
                                        call.patch[1], ok)
        /\ instances' = [instances EXCEPT ![n] = Finish(Issued(inst, call, now), "atMax")]
        /\ UNCHANGED <<pvcSize, now, calc>>

\* os.Stat of the mount path
Stat(n, exists) ==
    LET inst == instances[n]
    IN  /\ inst.pc = "stat"
        /\ instances' =
              [instances EXCEPT ![n] =
                  Goto([inst EXCEPT !.pass.probe.mount = exists, !.pass.at = now],
                       IF exists THEN "df" ELSE "noMount")]
        /\ UNCHANGED <<pvcSize, scalers, now, calc>>

\* exec df of the mount path, reporting usedBlocks when it succeeds; the
\* mains with a cooldown read the clock for it once df has returned
Df(n, ok, usedBlocks) ==
    LET inst == instances[n]
        p == inst.pass
    IN  /\ inst.pc = "df"
        /\ instances' =
              [instances EXCEPT ![n] =
                  IF ok
                  THEN Goto([inst EXCEPT !.pass.probe.df = TRUE,
                                         !.pass.probe.used = usedBlocks,
                                         !.pass.at = now],
                            AfterDf(inst.main, usedBlocks, CurrentPVCSizeOf(p),
                                    ThresholdOf(p), ScaleValOf(p), MaxSizeGiOf(p),
                                    ScalerOf(p).Status.ScaledAt, now))
                  ELSE Finish([inst EXCEPT !.pass.at = now], "dfError")]
        /\ UNCHANGED <<pvcSize, scalers, now, calc>>

\* the size-increase request: the merge patch of the claim
PatchClaim(n, ok) ==
    /\ instances[n].pc = "pvcPatch"
    /\ \E newSizeStr \in {FormatGi(NewSizeOf(instances[n].pass))} :
          LET inst == instances[n]
              call == PvcPatch(newSizeStr, ok)
              after == Issued(inst, call, now)
          IN  /\ ok => Admitted(pvcSize, newSizeStr)
              /\ pvcSize' = IF ok THEN PatchedStorage(newSizeStr) ELSE pvcSize
              /\ instances' =
                    [instances EXCEPT ![n] =
                        Goto(after, ScaleBranch("pvcPatch", ok, NearMaxOf(inst.pass),
                                                after.pass.calls))]
    /\ UNCHANGED <<scalers, now, calc>>

\* currentTime := time.Now().UTC().Format(time.RFC3339), once the
\* size-increase request has returned
ReadClock(n) ==
    LET inst == instances[n]
    IN  /\ inst.pc = "timeNow"
        /\ instances' =
              [instances EXCEPT ![n] =
                  Goto([inst EXCEPT !.pass.currentTime = FormatTime(now),
                                    !.pass.at = now],
                       ScaleBranch("timeNow", TRUE, NearMaxOf(inst.pass),
                                   inst.pass.calls))]
        /\ UNCHANGED <<pvcSize, scalers, now, calc>>

\* the scaledAt patch, carrying currentTime; its error is printed
StampScaledAt(n, ok) ==
    LET inst == instances[n]
        call == ScaledAtPatch(inst.pass.currentTime, ok)
        after == Issued(inst, call, now)
    IN  /\ inst.pc = "scaledAt"
        /\ scalers' = AfterStatusPatch(inst.main, scalers, ScalerOf(inst.pass).Name,
                                        call.patch[1], ok)
        /\ instances' =
              [instances EXCEPT ![n] =
                  Goto(after, ScaleBranch("scaledAt", ok, NearMaxOf(inst.pass),
                                          after.pass.calls))]
        /\ UNCHANGED <<pvcSize, now, calc>>

\* the reachedMaxSize patch of the proximity check; its error is printed
PatchReached(n, ok) ==
    LET inst == instances[n]
        call == ReachedMaxSizePatch(ok)
        after == Issued(inst, call, now)
    IN  /\ inst.pc = "reachedPatch"
        /\ scalers' = AfterStatusPatch(inst.main, scalers, ScalerOf(inst.pass).Name,
                                        call.patch[1], ok)
        /\ instances' =
              [instances EXCEPT ![n] =
                  Goto(after, ScaleBranch("reachedPatch", ok, NearMaxOf(inst.pass),
                                          after.pass.calls))]
        /\ UNCHANGED <<pvcSize, now, calc>>

\* a step of the loop on node n, df reporting one of reports
NodeStep(n, reports) ==
    \/ \E ok \in BOOLEAN : ListPods(n, ok)
    \/ \E ok \in BOOLEAN : GetClaim(n, ok)
    \/ \E ok \in BOOLEAN : ListScalers(n, ok)
    \/ \E ok \in BOOLEAN : GetScaler(n, ok)
    \/ \E ok \in BOOLEAN : PatchMax(n, ok)
    \/ \E exists \in BOOLEAN : Stat(n, exists)
    \/ \E ok \in BOOLEAN : \E usedBlocks \in reports : Df(n, ok, usedBlocks)
    \/ \E ok \in BOOLEAN : PatchClaim(n, ok)
    \/ ReadClock(n)
    \/ \E ok \in BOOLEAN : StampScaledAt(n, ok)
    \/ \E ok \in BOOLEAN : PatchReached(n, ok)
    \/ Wake(n)

----------------------------------------------------------------------------
(* One node: the loop and the clock *)

\* the node whose loop the properties follow
OneNode == "node-a"

\* the pass of that node in progress, or its latest one, and the one before
pass == instances[OneNode].pass

prev == instances[OneNode].prev

\* a VolumeScaler object as created: no status yet.  The policy of a claim
\* goes by the name of the claim, as in the sample of the README, unless said
\* otherwise
VolumeScaler(name, pvcName, threshold, scale, maxSize) ==
    [Name |-> name,
     Spec |-> [PVCName |-> pvcName, Threshold |-> threshold,
               Scale |-> scale, MaxSize |-> maxSize],
     Status |-> EmptyStatus]

\* a policy for another claim of the namespace
OtherScaler ==
    VolumeScaler("logs-scaler", "logs", <<"7", "0", "%">>, <<"3", "0", "%">>,
                 <<"1", "0", "G", "i">>)

\* lists in which the claim has no policy, or a policy after another one
\* that does not go by the name of the claim, or a policy with a field that
\* does not parse (the program is also run where the CRD carries no patterns)
OtherLists ==
    {<<>>,
     <<OtherScaler>>,
     <<OtherScaler,
       VolumeScaler("data-scaler", PvcName, <<"7", "0", "%">>, <<"3", "0", "%">>,
                    <<"1", "0", "G", "i">>)>>,
     <<VolumeScaler(PvcName, PvcName, <<"%">>, <<"3", "0", "%">>,
                    <<"1", "0", "G", "i">>)>>,
     <<VolumeScaler(PvcName, PvcName, <<"7", "0", "%">>, <<"x", "%">>,
                    <<"1", "0", "G", "i">>)>>,
     <<VolumeScaler(PvcName, PvcName, <<"7", "0", "%">>, <<"3", "0", "%">>,
                    <<"G", "i">>)>>}

\* requested storage of the claim in the behaviours that start with them
OtherSizes == {7 * 1024}

\* a claim and a threshold for which df can report exactly the threshold
ExactSizes == {6400}

ExactThresholds == {<<"5", "7", "%">>}

Init ==
    /\ \/ /\ pvcSize \in InitSizes
          /\ \E th \in Thresholds, sc \in Scales, mx \in MaxSizes :
                scalers = <<VolumeScaler(PvcName, PvcName, th, sc, mx)>>
       \/ /\ pvcSize \in OtherSizes
          /\ scalers \in OtherLists
       \/ /\ pvcSize \in ExactSizes
          /\ \E th \in ExactThresholds, mx \in MaxSizes :
                scalers = <<VolumeScaler(PvcName, PvcName, th,
                                         <<"3", "0", "%">>, mx)>>
    /\ now = 0
    /\ \E main \in Mains : instances = [n \in {OneNode} |-> Starting(main)]
    /\ calc = NoCalc

Tick ==
    /\ now < MaxTicks * TickHours
    /\ now' = now + TickHours
    /\ UNCHANGED <<pvcSize, scalers, instances, calc>>

Next == NodeStep(OneNode, DfReports(pass.size)) \/ Tick

Spec == Init /\ [][Next]_vars

----------------------------------------------------------------------------
(* One node and the clock, with a claim below 1Gi: its request converts to *)
(* a fraction of a Gi, and its grown size prints as "0Gi" or as "1Gi"      *)

\* requested storage of the claim, in Mi
SmallSizes == {256, 512}

\* the maxSize of its policy
SmallMaxSizes == {<<"1", "G", "i">>}

\* df reports the filesystem of a claim of mi Mi empty or full
SmallReports(mi) == {0, mi * 1024}

InitSmall ==
    /\ pvcSize \in SmallSizes
    /\ \E th \in Thresholds, sc \in Scales, mx \in SmallMaxSizes :
          scalers = <<VolumeScaler(PvcName, PvcName, th, sc, mx)>>
    /\ now = 0
    /\ \E main \in Mains : instances = [n \in {OneNode} |-> Starting(main)]
    /\ calc = NoCalc

NextSmall == NodeStep(OneNode, SmallReports(pass.size)) \/ Tick

SpecSmall == InitSmall /\ [][NextSmall]_vars


----------------------------------------------------------------------------
(* The size adapter convertToGi as a function of its argument, applied to   *)
(* size strings with and without a fraction and a known unit               *)

\* the size strings convertToGi is applied to: <int>[.<frac>]<unit>
SizeNumbers ==
    {<<"0">>, <<"1">>, <<"5">>, <<"1", "2">>, <<"5", "1", "2", "0">>}

SizeFractions == {<<>>, <<"5">>, <<"0", "0", "4", "9">>}

SizeUnits ==
    {<<>>, <<"G", "i">>, <<"M", "i">>, <<"T", "i">>, <<"K", "i">>, <<"G">>, <<"M">>}

\* the inputs of convertToGi; a number of Ti is kept below the largest
\* integer of the model
SizeStringInputs ==
    {in \in [int : SizeNumbers, frac : SizeFractions, unit : SizeUnits] :
        in.unit = <<"T", "i">> => Len(in.int) <= 2}

SizeString(in) ==
    in.int \o (IF in.frac = <<>> THEN <<>> ELSE <<".">> \o in.frac) \o in.unit

\* what the loop prints about a conversion: convertToGi itself prints
\* nothing, its caller prints a line when it returns an error
ConvertLog(out) == IF out.err THEN <<"Error converting size">> ELSE <<>>

InitAdapters ==
    /\ pvcSize = 5 * 1024
    /\ scalers = <<>>
    /\ now = 0
    /\ instances = [n \in {OneNode} |-> Starting(ClientGo)]
    /\ \E in \in SizeStringInputs :
          calc = [op |-> "convertToGi", done |-> FALSE, in |-> in]

ConvertSize ==
    /\ calc.op = "convertToGi" /\ ~calc.done
    /\ \E out \in {convertToGi(SizeString(calc.in))} :
          calc' = [op |-> "convertToGi", done |-> TRUE, in |-> calc.in,
                   out |-> out, log |-> ConvertLog(out)]
    /\ UNCHANGED <<pvcSize, scalers, now, instances>>

NextAdapters == ConvertSize

SpecAdapters == InitAdapters /\ [][NextAdapters]_vars

----------------------------------------------------------------------------
(* The DaemonSet: one copy of the loop on every node, each with pod volumes *)
(* that name the same claim; the steps of the copies interleave.  The      *)
(* copies run the same main (one image) and their passes fall within the   *)
(* same hour: the clock does not move                                      *)

Nodes == {"node-a", "node-b"}

\* requested storage of the claim when the DaemonSet starts, in Mi
ClusterSizes == {7 * 1024}

\* the policies the DaemonSet may find
ClusterPolicies ==
    {VolumeScaler(PvcName, PvcName, <<"7", "0", "%">>, <<"3", "0", "%">>,
                  <<"1", "0", "G", "i">>)}

InitCluster ==
    /\ pvcSize \in ClusterSizes
    /\ \E vs \in ClusterPolicies : scalers = <<vs>>
    /\ now = 0
    /\ \E main \in Mains : instances = [n \in Nodes |-> Starting(main)]
    /\ calc = NoCalc

\* a step of the loop on node n where the reads succeed, the mount path
\* exists and df reports 6.5Gi used; a patch may fail
ClusterStep(n) ==
    \/ ListPods(n, TRUE)
    \/ GetClaim(n, TRUE)
    \/ ListScalers(n, TRUE)
    \/ GetScaler(n, TRUE)
    \/ \E ok \in BOOLEAN : PatchMax(n, ok)
    \/ Stat(n, TRUE)
    \/ Df(n, TRUE, 26 * BlockStep)
    \/ \E ok \in BOOLEAN : PatchClaim(n, ok)
    \/ ReadClock(n)
    \/ \E ok \in BOOLEAN : StampScaledAt(n, ok)
    \/ \E ok \in BOOLEAN : PatchReached(n, ok)
    \/ Wake(n)

NextCluster == \E n \in Nodes : ClusterStep(n)

SpecCluster == InitCluster /\ [][NextCluster]_vars

----------------------------------------------------------------------------
(* One node of the DaemonSet on its own.  The process is never descheduled  *)
(* for good and every call it makes returns (the API calls and df end with  *)
(* a result or an error, time.Sleep returns), so the step of the loop that  *)
(* is due is eventually taken.                                              *)

\* the policies of Spec's scales, and one whose threshold does not parse
NodePolicies ==
    {VolumeScaler(PvcName, PvcName, <<"7", "0", "%">>, sc,
                  <<"1", "0", "G", "i">>) : sc \in Scales}
    \cup {VolumeScaler(PvcName, PvcName, <<"%">>, <<"3", "0", "%">>,
                       <<"1", "0", "G", "i">>)}

InitNode ==
    /\ pvcSize \in ClusterSizes
    /\ \E vs \in NodePolicies : scalers = <<vs>>
    /\ now = 0
    /\ \E main \in Mains : instances = [n \in {OneNode} |-> Starting(main)]
    /\ calc = NoCalc

NextNode == NodeStep(OneNode, DfReports(pass.size))

FairNode == InitNode /\ [][NextNode]_vars /\ WF_vars(NextNode)

----------------------------------------------------------------------------
(* One node with the filesystem always full and every call succeeding *)

\* sizes below maxSize and at it, and scales above 0
FullSizes == {1024, 2 * 1024, 3 * 1024, 5 * 1024, 7 * 1024, 9 * 1024, 10 * 1024}

FullScales == {<<"1", "0", "%">>, <<"2", "0", "%">>, <<"3", "0", "%">>}

InitFull ==
    /\ pvcSize \in FullSizes
    /\ \E sc \in FullScales :
          scalers = <<VolumeScaler(PvcName, PvcName, <<"7", "0", "%">>, sc,
                                   <<"1", "0", "G", "i">>)>>
    /\ now = 0
    /\ instances = [n \in {OneNode} |-> Starting(ClientGo)]
    /\ calc = NoCalc

\* a step of the loop in which the call succeeds and df reports as many used
\* blocks as the claim requests
FullStep(n) ==
    \/ ListPods(n, TRUE)
    \/ GetClaim(n, TRUE)
    \/ ListScalers(n, TRUE)
    \/ PatchMax(n, TRUE)
    \/ Stat(n, TRUE)
    \/ Df(n, TRUE, instances[n].pass.size * 1024)
    \/ PatchClaim(n, TRUE)
    \/ ReadClock(n)
    \/ StampScaledAt(n, TRUE)
    \/ PatchReached(n, TRUE)
    \/ Wake(n)

NextFull == FullStep(OneNode)

\* the loop never stops, so the step that is due is eventually taken
FairFull == InitFull /\ [][NextFull]_vars /\ WF_vars(NextFull)

----------------------------------------------------------------------------
(* Vocabulary of the properties *)

\* the status of the policy, as stored
Status == StatusRead(scalers, PvcName)

\* the policy of the claim
Policy == scalers[FindScaler(scalers, PvcName)]

\* the policy, parsed: threshold and scale in percent, maxSize in Mi
PolicyThreshold == DigitsToNat(TrimSuffix(Policy.Spec.Threshold))

PolicyScale == DigitsToNat(TrimSuffix(Policy.Spec.Scale))

PolicyMaxMi ==
    DigitsToNat(SubSeq(Policy.Spec.MaxSize, 1, Len(Policy.Spec.MaxSize) - 2)) * 1024

\* the calls of one kind that a pass issued
CallsOf(p, kind) == {i \in 1..Len(p.calls) : p.calls[i].kind = kind}

\* the pass has ended
Ended(p) == p.ran /\ p.path # "running"

\* the pass has ended, having fetched the claim and the policy
Fetched(p) ==
    /\ Ended(p)
    /\ p.path \notin {"podListError", "pvcGetError", "pvcSizeError", "listError",
                      "noScalers", "noScaler", "invalidThreshold", "invalidScale",
                      "invalidMaxSize"}

\* no call of the pass failed
AllCallsOk(p) == \A i \in 1..Len(p.calls) : p.calls[i].ok

\* floor of the utilization percentage the pass saw: used 1K blocks over the
\* requested Mi
FloorUtilization(p) == (p.probe.used * 25) \div (p.size * 256)

\* the pass has ended, having got as far as the threshold test
Probed(p) ==
    Fetched(p) /\ p.size < PolicyMaxMi /\ p.probe.mount /\ p.probe.df

----------------------------------------------------------------------------
(* C1..C4 *)

\* C1 (monotonic growth): every size-increase request a pass issues asks for
\* a size that is not smaller than the size the pass read and not larger than
\* maxSize, and the stored request never exceeds maxSize unless it started
\* above it.
C1_MonotonicGrowth ==
    \A i \in CallsOf(pass, "pvc") :
        /\ PatchedStorage(pass.calls[i].size) >= pass.size
        /\ PatchedStorage(pass.calls[i].size) <= PolicyMaxMi

\* C2 (absorbing max state): a pass that reads reachedMaxSize = true issues no
\* size-increase request.
C2_AbsorbingMax ==
    (pass.ran /\ pass.status.ReachedMaxSize) => CallsOf(pass, "pvc") = {}

\* C3 (idempotence): when a pass follows a pass with the same probe report at
\* the same time, no call of either failing, and the first issued a
\* size-increase request, the second issues none.
C3_Idempotent ==
    (/\ Fetched(prev) /\ Fetched(pass)
     /\ AllCallsOk(prev) /\ AllCallsOk(pass)
     /\ pass.probe = prev.probe
     /\ pass.at = prev.at
     /\ CallsOf(prev, "pvc") # {})
    => CallsOf(pass, "pvc") = {}

\* C4 (cooldown): a pass that reads a scaledAt less than the cooldown interval
\* before the current time issues no size-increase request.
C4_Cooldown ==
    (/\ pass.ran
     /\ pass.status.ScaledAt # <<>>
     /\ pass.at < ParseTime(pass.status.ScaledAt) + Cooldown)
    => CallsOf(pass, "pvc") = {}

----------------------------------------------------------------------------
(* C5..C10 *)

\* C5 (threshold boundary): a pass that gets as far as the threshold test
\* goes on to the scaling steps (the cooldown test of the mains that have
\* one, the new size, the requests) exactly when the floor of the
\* utilization percentage is at least the threshold, and below the threshold
\* it issues no call at all.
C5_ThresholdBoundary ==
    Probed(pass) =>
        /\ (pass.path \in {"recentlyScaled", "noPatchNeeded", "scaleFailed", "scaled"})
              <=> (FloorUtilization(pass) >= PolicyThreshold)
        /\ (FloorUtilization(pass) < PolicyThreshold) => pass.calls = <<>>

\* C6 (max-size short-circuit): a pass that reads a size at or above maxSize
\* issues no size-increase request and no scaledAt patch, and patches
\* reachedMaxSize = true exactly when the flag it read was not set.
C6_MaxSizeShortCircuit ==
    (Fetched(pass) /\ pass.size >= PolicyMaxMi) =>
        /\ CallsOf(pass, "pvc") = {}
        /\ CallsOf(pass, "scaledAt") = {}
        /\ (CallsOf(pass, "reachedMaxSize") # {}) <=> ~pass.status.ReachedMaxSize
        /\ \A i \in CallsOf(pass, "reachedMaxSize") :
              pass.calls[i].patch = <<[ReachedMaxSize |-> TRUE]>>

\* a pass at exactly maxSize, flag not yet set and a scaledAt on record,
\* patched the flag and nothing else, and did not probe the mount
C6_Witness ==
    /\ Fetched(pass) /\ pass.size = PolicyMaxMi
    /\ ~pass.status.ReachedMaxSize
    /\ pass.status.ScaledAt # <<>>
    /\ pass.probe = NoProbe
    /\ Len(pass.calls) = 1 /\ pass.calls[1].kind = "reachedMaxSize"

\* C7 (clamping): when currentSize * (1 + scalePercent/100) exceeds maxSize,
\* every size-increase request of the pass asks for exactly maxSize, and a
\* pass whose request succeeded patches reachedMaxSize = true unless the flag
\* it read was already set.
C7_Clamping ==
    (Fetched(pass) /\ pass.size * (100 + PolicyScale) > PolicyMaxMi * 100) =>
        /\ \A i \in CallsOf(pass, "pvc") :
              pass.calls[i].size = Policy.Spec.MaxSize
        /\ (pass.path = "scaled" /\ ~pass.status.ReachedMaxSize) =>
              \E i \in CallsOf(pass, "reachedMaxSize") :
                  pass.calls[i].patch = <<[ReachedMaxSize |-> TRUE]>>

\* scale 30%, maxSize 10Gi, 9Gi: 11.7Gi is clamped to "10Gi" and the flag is
\* patched in the same pass
C7_Witness ==
    /\ pass.ran /\ pass.size = 9 * 1024 /\ PolicyScale = 30
    /\ PolicyMaxMi = 10 * 1024
    /\ ~pass.status.ReachedMaxSize
    /\ pass.path = "scaled"
    /\ pass.calls[1].size = <<"1", "0", "G", "i">>
    /\ CallsOf(pass, "reachedMaxSize") # {}

\* the scenario of C8: threshold 70%, scale 30%, maxSize 10Gi, a 5Gi volume
\* at 75% utilization, no scaledAt on record, no call failing
C8_Scenario ==
    /\ Fetched(pass) /\ AllCallsOk(pass)
    /\ PolicyThreshold = 70 /\ PolicyScale = 30 /\ PolicyMaxMi = 10 * 1024
    /\ pass.size = 5 * 1024
    /\ pass.probe.mount /\ pass.probe.df
    /\ pass.probe.used * 100 = 75 * pass.size * 1024
    /\ pass.status = EmptyStatus

\* C8 as stated: in the scenario the pass requests "7Gi", patches scaledAt
\* and leaves reachedMaxSize false.
C8_ScenarioAsStated ==
    C8_Scenario =>
        /\ Len(pass.calls) = 2
        /\ pass.calls[1] = PvcPatch(<<"7", "G", "i">>, TRUE)
        /\ pass.calls[2].kind = "scaledAt"
        /\ ~Status.ReachedMaxSize

\* C8 amended: in the scenario the pass requests "6Gi" (6.5 printed with
\* %.0f goes to the even neighbour), patches scaledAt with the time it read
\* once that request had returned, and leaves reachedMaxSize false; the
\* stamp is stored unless the patch went through kubectl.
C8_ScenarioRoundsToEven ==
    C8_Scenario =>
        /\ pass.path = "scaled"
        /\ pass.currentTime # <<>>
        /\ pass.calls = <<PvcPatch(<<"6", "G", "i">>, TRUE),
                          ScaledAtPatch(pass.currentTime, TRUE)>>
        /\ pvcSize = 6 * 1024
        /\ ~Status.ReachedMaxSize
        /\ Status.ScaledAt = IF instances[OneNode].main = Kubectl THEN <<>>
                             ELSE pass.currentTime

\* the scenario happened and the pass scaled
C8_Witness == C8_Scenario /\ pass.path = "scaled" /\ pvcSize > pass.size

\* C9 (reachedMaxSize is monotonic): no step takes the stored flag from true
\* to false, and every status patch that names reachedMaxSize writes true.
C9_FlagMonotonic ==
    [][/\ Status.ReachedMaxSize => Status'.ReachedMaxSize
       /\ \A n \in DOMAIN instances :
            LET calls == instances'[n].pass.calls
            IN  \A i \in 1..Len(calls) :
                    \A j \in 1..Len(calls[i].patch) :
                        "ReachedMaxSize" \in DOMAIN calls[i].patch[j]
                            => calls[i].patch[j].ReachedMaxSize]_vars

\* a pass that read the flag set patched scaledAt, and the flag is still set
C9_Witness ==
    /\ pass.ran /\ pass.status.ReachedMaxSize
    /\ \E i \in CallsOf(pass, "scaledAt") : pass.calls[i].ok
    /\ Status.ScaledAt # pass.status.ScaledAt
    /\ Status.ReachedMaxSize

\* C10 (bounded side effects): a pass issues at most one size-increase
\* request, at most one scaledAt patch and at most one reachedMaxSize patch.
C10_BoundedEffects ==
    /\ Cardinality(CallsOf(pass, "pvc")) <= 1
    /\ Cardinality(CallsOf(pass, "scaledAt")) <= 1
    /\ Cardinality(CallsOf(pass, "reachedMaxSize")) <= 1
    /\ Cardinality(CallsOf(pass, "scaledAt") \cup CallsOf(pass, "reachedMaxSize")) <= 2
    /\ Len(pass.calls) =
          Cardinality(CallsOf(pass, "pvc") \cup CallsOf(pass, "scaledAt")
                      \cup CallsOf(pass, "reachedMaxSize"))

\* a pass issued one size-increase request and both status patches
C10_Witness ==
    /\ Cardinality(CallsOf(pass, "pvc")) = 1
    /\ Cardinality(CallsOf(pass, "scaledAt")) = 1
    /\ Cardinality(CallsOf(pass, "reachedMaxSize")) = 1

----------------------------------------------------------------------------
(* C11..C12 *)

\* C11 (no partial commit): a pass whose size-increase request failed issues
\* no status patch, neither scaledAt nor reachedMaxSize, and leaves the stored
\* size and the stored policy status exactly as the pass read them.
C11_NoPartialCommit ==
    (pass.ran /\ \E i \in CallsOf(pass, "pvc") : ~pass.calls[i].ok) =>
        /\ CallsOf(pass, "scaledAt") = {}
        /\ CallsOf(pass, "reachedMaxSize") = {}
        /\ pvcSize = pass.size
        /\ Status = pass.status

\* a pass one step from maxSize, flag not set, whose size-increase request
\* failed: a successful request would have been followed by both patches
C11_Witness ==
    /\ pass.ran /\ pass.path = "scaleFailed"
    /\ pass.size = 9 * 1024 /\ PolicyMaxMi = 10 * 1024
    /\ ~pass.status.ReachedMaxSize
    /\ pass.calls = <<PvcPatch(<<"1", "0", "G", "i">>, FALSE)>>

\* the paths on which a pass ends because a fetch or a patch failed
FailurePaths ==
    {"podListError", "pvcGetError", "listError", "dfError", "scaleFailed"}

\* C12 (error propagation): a call of a pass that fails is the last call of
\* that pass and the pass ends on a failure path; no pass issues a further
\* call after a failed one or ends as a pass with no failure does.
C12_ErrorsPropagate ==
    \A i \in 1..Len(pass.calls) :
        ~pass.calls[i].ok => (i = Len(pass.calls) /\ pass.path \in FailurePaths)

----------------------------------------------------------------------------
(* C13..C15 *)

\* 10 to the power k
RECURSIVE Pow10(_)
Pow10(k) == IF k = 0 THEN 1 ELSE 10 * Pow10(k - 1)

\* Mi per unit
UnitMi(unit) ==
    IF unit = <<"M", "i">> THEN 1
    ELSE IF unit = <<"T", "i">> THEN 1024 * 1024
    ELSE 1024

\* the decimal number <int>.<frac> of an input scaled by its unit's factor,
\* in whole Mi
NormalizedMi(in) ==
    DigitsToNat(in.int) * UnitMi(in.unit)
        + (DigitsToNat(in.frac) * UnitMi(in.unit)) \div Pow10(Len(in.frac))

\* a size convertToGi returned, in whole Mi
ReturnedMi(out) == out.val \div (GiUnit \div 1024)

\* convertToGi has been applied to an input <number><unit>, unit Mi, Gi or Ti
ConvertedWithUnit ==
    /\ calc.op = "convertToGi" /\ calc.done
    /\ calc.in.unit \in {<<"M", "i">>, <<"G", "i">>, <<"T", "i">>}

\* C13 (unit normalization): for an input <number><unit> with unit Mi, Gi or
\* Ti, the number with or without a decimal point, convertToGi returns no
\* error and the number scaled by the unit's factor relative to Gi, to within
\* 1 Mi; so "5Gi", "5120Mi" and "0.0049Ti" all give 5Gi to within the 18 Mi
\* by which 0.0049Ti exceeds it.
C13_UnitNormalization ==
    ConvertedWithUnit =>
        /\ ~calc.out.err
        /\ ReturnedMi(calc.out) - NormalizedMi(calc.in) \in -1..1
        /\ SizeString(calc.in) \in {<<"5", "G", "i">>, <<"5", "1", "2", "0", "M", "i">>,
                                    <<"0", ".", "0", "0", "4", "9", "T", "i">>}
              => ReturnedMi(calc.out) - 5 * 1024 \in -18..18

\* C14 (default unit): applied to a string of digits, convertToGi returns
\* that number of Gi; applied to digits followed by a suffix other than Mi, Gi
\* or Ti, it returns that number of Gi with no error and a warning is logged.
C14_DefaultUnit ==
    (calc.op = "convertToGi" /\ calc.done /\ calc.in.frac = <<>>) =>
        /\ calc.in.unit = <<>> =>
              /\ ~calc.out.err
              /\ calc.out.val = DigitsToNat(calc.in.int) * GiUnit
        /\ calc.in.unit \notin {<<>>, <<"M", "i">>, <<"G", "i">>, <<"T", "i">>} =>
              /\ ~calc.out.err
              /\ calc.out.val = DigitsToNat(calc.in.int) * GiUnit
              /\ calc.log # <<>>

----------------------------------------------------------------------------
(* C16..C18 *)

\* node n has read the claim and has not yet finished its pass
InFlight(n) == instances[n].pc \in Steps \ {"pvcGet"}

\* C16 (one in-flight pass per identifier): at most one node at a time has
\* read the claim and not yet finished reading the policy, deciding and
\* patching.
C16_OneInFlight ==
    Cardinality({n \in Nodes : InFlight(n)}) <= 1

\* C17 (single active reconciler): there is one instance such that no other
\* instance is walking its pod volumes or has issued a size-increase request
\* or a status patch.
C17_SingleActiveReconciler ==
    \E leader \in Nodes :
        \A n \in Nodes \ {leader} :
            instances[n].pc \in {"podList", "sleep"} /\ ~instances[n].wrote

\* C18 (duplicate collapsing): within one polling cycle a node runs at most
\* one pass for the claim, however many of its pod volumes name it.
C18_OncePerCycle ==
    \A n \in Nodes : instances[n].passes <= 1

----------------------------------------------------------------------------
(* C19..C20 *)

\* the pass got the claim and the list of policies
Listed(p) ==
    /\ Ended(p)
    /\ p.path \notin {"podListError", "pvcGetError", "pvcSizeError", "listError"}

\* the claim has a policy and its three fields parse
PolicyParses ==
    /\ FindScaler(scalers, PvcName) # 0
    /\ ~ParseNumber(TrimSuffix(Policy.Spec.Threshold)).err
    /\ ~ParseNumber(TrimSuffix(Policy.Spec.Scale)).err
    /\ ~convertToGi(Policy.Spec.MaxSize).err

\* the new size the pass computes is not greater than the size it read
\* (both times 100, in Mi)
NewSizeNotGreater(p) ==
    LET grown == p.size * (100 + PolicyScale)
        newSize == IF grown > PolicyMaxMi * 100 THEN PolicyMaxMi * 100 ELSE grown
    IN  newSize <= p.size * 100

\* the cases in which a pass ends without a write, in the order in which the
\* pass meets them
NoWriteCase(p) ==
    /\ Listed(p)
    /\ \/ ~PolicyParses
       \/ /\ PolicyParses
          /\ \/ p.size >= PolicyMaxMi /\ p.status.ReachedMaxSize
             \/ /\ p.size < PolicyMaxMi
                /\ \/ ~p.probe.mount
                   \/ /\ p.probe.mount /\ p.probe.df
                      /\ \/ FloorUtilization(p) < PolicyThreshold
                         \/ NewSizeNotGreater(p)

\* C19 (no-write outcomes): a pass that finds no policy for the claim, or a
\* policy field that does not parse, or the claim at or beyond maxSize with
\* the flag already recorded, or no mount path, or utilization below the
\* threshold, or a new size not greater than the current one, issues no call
\* and leaves the stored size and the stored status as they were.
C19_NoWriteOutcomes ==
    NoWriteCase(pass) =>
        /\ pass.calls = <<>>
        /\ pvcSize = pass.size
        /\ Status = pass.status

\* a pass found a maxSize that does not parse and wrote nothing
C19_Witness ==
    /\ Listed(pass)
    /\ FindScaler(scalers, PvcName) # 0
    /\ convertToGi(Policy.Spec.MaxSize).err
    /\ pass.path = "invalidMaxSize" /\ pass.calls = <<>>

\* the fields of the status subrecord that a successful call of the pass names
Patched(p) ==
    UNION {DOMAIN p.calls[i].patch[1] :
              i \in {j \in 1..Len(p.calls) : p.calls[j].kind # "pvc" /\ p.calls[j].ok}}

\* the step is a successful status patch of node n that names field f
PatchedNow(n, f) ==
    LET before == instances[n].pass.calls
        after == instances'[n].pass.calls
    IN  /\ Len(after) = Len(before) + 1
        /\ after[Len(after)].kind # "pvc"
        /\ after[Len(after)].ok
        /\ f \in DOMAIN after[Len(after)].patch[1]

\* C20 (frame of status writes): every status patch of a pass names only
\* scaledAt or only reachedMaxSize; no step changes the number of policy
\* objects, the name or the spec of any of them, or the status of a policy of
\* another claim; and a step changes a status field only when it is a
\* successful patch that names that field.
C20_StatusFrame ==
    [][/\ \A n \in DOMAIN instances :
            LET calls == instances'[n].pass.calls
            IN  \A i \in 1..Len(calls) :
                    calls[i].kind # "pvc" =>
                        /\ Len(calls[i].patch) = 1
                        /\ DOMAIN calls[i].patch[1] \in {{"ScaledAt"}, {"ReachedMaxSize"}}
       /\ Len(scalers') = Len(scalers)
       /\ \A i \in 1..Len(scalers) :
            /\ scalers'[i].Name = scalers[i].Name
            /\ scalers'[i].Spec = scalers[i].Spec
            /\ i # FindScaler(scalers, PvcName) => scalers'[i] = scalers[i]
       /\ \A f \in DOMAIN EmptyStatus :
            Status'[f] # Status[f] => \E n \in DOMAIN instances : PatchedNow(n, f)]_vars

\* with the policy second in the list and the flag already set, a pass patched
\* scaledAt alone: the flag, the spec and the other policy are as they were
C20_Witness ==
    /\ Len(scalers) = 2 /\ scalers[1] = OtherScaler
    /\ pass.ran /\ pass.status.ReachedMaxSize
    /\ Patched(pass) = {"ScaledAt"}
    /\ Status = [ScaledAt |-> pass.currentTime, ReachedMaxSize |-> TRUE]
    /\ Status.ScaledAt # pass.status.ScaledAt

----------------------------------------------------------------------------
(* C21..C23 *)

\* C21 (strict increase): every size-increase request of a pass asks for more
\* than the size the pass read, and a pass whose new size, clamped and
\* printed in whole Gi, is not greater than the size it read issues no
\* size-increase request and no scaledAt patch.
C21_StrictIncrease ==
    /\ \A i \in CallsOf(pass, "pvc") : PatchedStorage(pass.calls[i].size) > pass.size
    /\ (/\ Probed(pass)
        /\ PatchedStorage(FormatGi(ClampToMax(GrownSize((pass.size * GiUnit) \div 1024,
                                                        PolicyScale),
                                              (PolicyMaxMi * GiUnit) \div 1024)))
              <= pass.size)
       => (CallsOf(pass, "pvc") = {} /\ CallsOf(pass, "scaledAt") = {})

\* the new size a pass computes from the size it read, clamped, in
\* hundredths of a Mi
NewSizeTimes100(p) ==
    LET grown == p.size * (100 + PolicyScale)
    IN  IF grown > PolicyMaxMi * 100 THEN PolicyMaxMi * 100 ELSE grown

\* C22 (near-max rule): a pass whose size-increase request succeeded issues
\* the reachedMaxSize patch if and only if maxSize minus the new size it
\* computed is at most 1 Gi and the flag it read was not set.
C22_NearMaxRule ==
    (pass.ran /\ pass.path = "scaled") =>
        ((CallsOf(pass, "reachedMaxSize") # {})
            <=> (/\ PolicyMaxMi * 100 - NewSizeTimes100(pass) <= 1024 * 100
                 /\ ~pass.status.ReachedMaxSize))

\* an 8Gi claim under scale 10% and maxSize 10Gi: the pass computed 8.8Gi,
\* 1.2Gi short of maxSize, requested "9Gi" and did not patch the flag
C22_Witness ==
    /\ pass.ran /\ pass.path = "scaled"
    /\ pass.size = 8 * 1024 /\ PolicyScale = 10 /\ PolicyMaxMi = 10 * 1024
    /\ ~pass.status.ReachedMaxSize
    /\ pass.calls[1] = PvcPatch(<<"9", "G", "i">>, TRUE)
    /\ CallsOf(pass, "reachedMaxSize") = {}
    /\ pvcSize = 9 * 1024 /\ ~Status.ReachedMaxSize

\* C23 (utilization definition): the utilization compared against the
\* threshold is a function of the probe report alone: two consecutive passes
\* that get the same report and both reach the threshold test take the same
\* decision, whatever size the claim requests in between.
C23_UtilizationOfProbeAlone ==
    (Probed(prev) /\ Probed(pass) /\ pass.probe = prev.probe)
        => ((pass.path = "belowThreshold") <=> (prev.path = "belowThreshold"))

----------------------------------------------------------------------------
(* C26..C27 *)

\* C26 (ordering of effects): in every pass a scaledAt patch comes after a
\* successful size-increase request of the same pass, and the reachedMaxSize
\* patch of a pass that issued a size-increase request comes after its
\* scaledAt patch; no step changes the stored scaledAt unless the pass of that
\* step made a successful size-increase request.  The stored scaledAt is
\* empty at the start, so it is set only where such a request came earlier.
C26_OrderOfEffects ==
    [][/\ \A n \in DOMAIN instances :
            LET p == instances'[n].pass
            IN  /\ \A i \in CallsOf(p, "scaledAt") :
                        \E j \in 1..(i - 1) : p.calls[j].kind = "pvc" /\ p.calls[j].ok
                /\ \A i \in CallsOf(p, "reachedMaxSize") :
                        CallsOf(p, "pvc") # {} =>
                            \E j \in 1..(i - 1) : p.calls[j].kind = "scaledAt"
       /\ Status'.ScaledAt # Status.ScaledAt =>
            \E n \in DOMAIN instances :
                /\ instances'[n].pass # instances[n].pass
                /\ \E j \in CallsOf(instances'[n].pass, "pvc") :
                        instances'[n].pass.calls[j].ok]_vars

\* a pass issued the size-increase request, the scaledAt patch and the
\* reachedMaxSize patch in that order, all three succeeded, and the stored
\* scaledAt is the time that pass read
C26_Witness ==
    /\ pass.ran /\ Len(pass.calls) = 3 /\ AllCallsOk(pass)
    /\ pass.calls[1].kind = "pvc"
    /\ pass.calls[2].kind = "scaledAt"
    /\ pass.calls[3].kind = "reachedMaxSize"
    /\ Status.ScaledAt = pass.currentTime
    /\ pvcSize > pass.size

\* C27 (meaning of the flag): whenever the stored reachedMaxSize is true the
\* claim requests at least maxSize - 1Gi.
C27_FlagMeansNearMax ==
    Status.ReachedMaxSize => pvcSize >= PolicyMaxMi - 1024

\* the flag was set by a pass that grew the claim to exactly maxSize - 1Gi
C27_Witness ==
    /\ Status.ReachedMaxSize /\ ~pass.status.ReachedMaxSize
    /\ pass.path = "scaled"
    /\ pvcSize = PolicyMaxMi - 1024
    /\ pass.size < pvcSize

----------------------------------------------------------------------------
(* C24 *)

\* C24 (failure isolation): a step of a pass, failed or not, takes the loop
\* to the rest of the pass, to the next pod volume, or after the last pod
\* volume to the sleep; a failed pod list takes it from the top of the loop
\* straight to the sleep with nothing written; the loop is never anywhere
\* else, and it is at the top again infinitely often.
C24_FailureIsolation ==
    /\ [][LET a == instances[OneNode]
              b == instances'[OneNode]
          IN  /\ a.pc \in Steps =>
                    \/ b.pc \in Steps \ {"pvcGet"} /\ b.ref = a.ref
                    \/ a.ref < PodVolumes /\ b.pc = "pvcGet" /\ b.ref = a.ref + 1
                    \/ a.ref = PodVolumes /\ b.pc = "sleep"
              /\ (a.pc = "podList" /\ b.pc # "pvcGet") =>
                    /\ b.pc = "sleep" /\ b.passes = a.passes
                    /\ b.pass.calls = <<>>
                    /\ pvcSize' = pvcSize /\ scalers' = scalers
              /\ a.pc = "sleep" => b.pc = "podList"]_vars
    /\ [](instances[OneNode].pc \in Steps \cup {"podList", "sleep"})
    /\ []<>(instances[OneNode].pc = "podList")

\* the pass for the first pod volume ended on a failure and the loop is at
\* the second pod volume
C24_Witness ==
    /\ instances[OneNode].pc = "pvcGet"
    /\ instances[OneNode].ref = 2
    /\ instances[OneNode].failed

----------------------------------------------------------------------------
(* C25 *)

\* C25 (convergence): with the filesystem full at every pass and every call
\* succeeding, a claim below maxSize under a scale above 0 eventually
\* requests maxSize with reachedMaxSize set.
C25_Converges ==
    (pvcSize < PolicyMaxMi /\ PolicyScale > 0)
        ~> (pvcSize = PolicyMaxMi /\ Status.ReachedMaxSize)

=============================================================================
